---- MODULE Spec2Model ----
(***************************************************************************)
(* VideoPlayer (src/unnamed/part_000): source classification, quality      *)
(* switching, the hls.js handle's lifecycle and the fullscreen flag.       *)
(*                                                                         *)
(* Strings are sequences of one-character strings, so that the regular     *)
(* expressions, split/replace, parseInt and toString are modelled by what  *)
(* they do to the characters.                                              *)
(***************************************************************************)
EXTENDS Integers, Sequences, FiniteSets, TLC

VARIABLES
    mounted,            \* the component is mounted
    videoUrl,           \* prop videoUrl
    hlsSupport,         \* "mse": Hls.isSupported(); "native": canPlayType(...); "none"
    selectedQuality,    \* useState selectedQuality
    availableQualities, \* useState availableQualities: <<[level, height], ...>>
    isLoading,          \* useState isLoading
    isFullscreen,       \* useState isFullscreen
    hlsRef,             \* hlsRef.current: 0 (null) or a handle
    effectHls,          \* the handle the HLS effect's pending cleanup closes over, 0 if none
    handles,            \* every Hls instance created so far
    videoSrc,           \* videoRef.current.src as last assigned by the component
    load,               \* the media element's load of videoSrc: "idle", "pending", "loaded", "failed"
    listeners,          \* a once-listener for loadedmetadata is registered on the element
    fullscreenElement,  \* document.fullscreenElement is non-null
    fsInFlight,         \* pending requestFullscreen()/exitFullscreen() promises of toggleFullscreen
    fsEvents,           \* fullscreenchange notifications queued and not yet delivered
    lastOp,             \* the handler that ran last and its argument
    calls,              \* the calls the last handler made on Hls instances
    ret                 \* the value returned by the last pure call

vars == <<mounted, videoUrl, hlsSupport, selectedQuality, availableQualities,
          isLoading, isFullscreen, hlsRef, effectHls, handles, videoSrc, load,
          listeners, fullscreenElement, fsInFlight, fsEvents,
          lastOp, calls, ret>>

playerVars == <<selectedQuality, availableQualities, isLoading, hlsRef,
                effectHls, handles, videoSrc, load, listeners>>
fsVars == <<isFullscreen, fullscreenElement, fsInFlight, fsEvents>>

----------------------------------------------------------------------------
(* Characters *)

Digits == <<"0", "1", "2", "3", "4", "5", "6", "7", "8", "9">>
UpperCase == <<"A", "B", "C", "D", "E", "F", "G", "H", "I", "J", "K", "L", "M",
               "N", "O", "P", "Q", "R", "S", "T", "U", "V", "W", "X", "Y", "Z">>
LowerCase == <<"a", "b", "c", "d", "e", "f", "g", "h", "i", "j", "k", "l", "m",
               "n", "o", "p", "q", "r", "s", "t", "u", "v", "w", "x", "y", "z">>

Range(s) == { s[k] : k \in DOMAIN s }

DigitChars == Range(Digits)
WordChars == Range(Digits) \cup Range(UpperCase) \cup Range(LowerCase) \cup {"_"}

\* \d
IsDigit(c) == c \in DigitChars

\* \w
IsWord(c) == c \in WordChars

\* the /i flag: both sides are compared in lower case
Lower(c) ==
    IF c \in Range(UpperCase)
    THEN LowerCase[CHOOSE k \in DOMAIN UpperCase : UpperCase[k] = c]
    ELSE c

Min(S) == CHOOSE x \in S : \A y \in S : x <= y
Max(S) == CHOOSE x \in S : \A y \in S : x >= y

\* JavaScript null (and the empty string, equally falsy)
Null == <<>>

\* One pattern element against one character: "<any>" is the regex dot,
\* "<w>" is \w, anything else is a literal character.
ElemMatches(p, c, ci) ==
    CASE p = "<any>" -> TRUE
      [] p = "<w>"   -> IsWord(c)
      [] OTHER       -> IF ci THEN Lower(p) = Lower(c) ELSE p = c

\* pattern pat matches s at position i
MatchAt(s, i, pat, ci) ==
    /\ i >= 1
    /\ i + Len(pat) - 1 <= Len(s)
    /\ \A k \in 1..Len(pat) : ElemMatches(pat[k], s[i + k - 1], ci)

\* the longest run of characters in class cls starting at position i
RECURSIVE RunFrom(_, _, _)
RunFrom(s, i, cls) ==
    IF i > Len(s) \/ s[i] \notin cls THEN <<>>
    ELSE <<s[i]>> \o RunFrom(s, i + 1, cls)

\* the longest run of characters outside class excl starting at position i
RECURSIVE RunFromNot(_, _, _)
RunFromNot(s, i, excl) ==
    IF i > Len(s) \/ s[i] \in excl THEN <<>>
    ELSE <<s[i]>> \o RunFromNot(s, i + 1, excl)

----------------------------------------------------------------------------
(* Source classifier *)

\* (youtu.be\/|v\/|u\/\w\/|embed\/|watch\?v=|&v=): the dot of youtu.be is unescaped
YouTubeMarkers ==
    << <<"y", "o", "u", "t", "u", "<any>", "b", "e", "/">>,
       <<"v", "/">>,
       <<"u", "/", "<w>", "/">>,
       <<"e", "m", "b", "e", "d", "/">>,
       <<"w", "a", "t", "c", "h", "?", "v", "=">>,
       <<"&", "v", "=">> >>

\* /^.*(markers)([^#&?]*).*/ : the greedy ^.* leaves group 1 at the last position
\* where an alternative matches (alternatives in order); group 2 is the longest run
\* of characters outside #&? after it; the id is group 2 when it has 11 characters.
getYouTubeVideoId(url) ==
    LET starts == { i \in 1..Len(url) :
                      \E m \in DOMAIN YouTubeMarkers :
                          MatchAt(url, i, YouTubeMarkers[m], FALSE) }
    IN  IF starts = {} THEN Null
        ELSE LET i  == Max(starts)
                 m  == Min({ k \in DOMAIN YouTubeMarkers :
                               MatchAt(url, i, YouTubeMarkers[k], FALSE) })
                 g2 == RunFromNot(url, i + Len(YouTubeMarkers[m]), {"#", "&", "?"})
             IN  IF Len(g2) = 11 THEN g2 ELSE Null

VimeoHost == <<"v", "i", "m", "e", "o", ".", "c", "o", "m">>

\* /(?:vimeo)\.com.*(?:videos|video|channels|)\/([\d]+)/i : after the first
\* vimeo.com, the greedy .* leaves the (possibly empty) alternative and the slash
\* at the last slash that a digit follows; group 1 is the run of digits after it.
getVimeoVideoId(url) ==
    LET hosts == { i \in 1..Len(url) : MatchAt(url, i, VimeoHost, TRUE) }
    IN  IF hosts = {} THEN Null
        ELSE LET e  == Min(hosts) + Len(VimeoHost)
                 sl == { j \in e..(Len(url) - 1) :
                           url[j] = "/" /\ IsDigit(url[j + 1]) }
             IN  IF sl = {} THEN Null
                 ELSE RunFrom(url, Max(sl) + 1, DigitChars)

\* \.(ext)(\?.*)?$ with the /i flag, for one extension
HasExtension(url, ext) ==
    \E i \in 1..Len(url) :
        /\ MatchAt(url, i, <<".">> \o ext, TRUE)
        /\ LET e == i + Len(ext)
           IN  e = Len(url) \/ url[e + 1] = "?"

DirectExtensions ==
    { <<"m", "p", "4">>, <<"w", "e", "b", "m">>, <<"o", "g", "g">>,
      <<"m", "o", "v">>, <<"a", "v", "i">>, <<"w", "m", "v">>,
      <<"f", "l", "v">>, <<"m", "k", "v">> }

isDirectVideo(url) == \E ext \in DirectExtensions : HasExtension(url, ext)

isHLSVideo(url) == HasExtension(url, <<"m", "3", "u", "8">>)

\* the chain with the direct-file test moved to the front
videoTypeDirectFirst(url) ==
    IF isDirectVideo(url) THEN "direct"
    ELSE IF getYouTubeVideoId(url) # Null THEN "youtube"
    ELSE IF getVimeoVideoId(url) # Null THEN "vimeo"
    ELSE IF isHLSVideo(url) THEN "hls"
    ELSE "custom"

\* the if / else-if chain of the render
videoType(url) ==
    IF getYouTubeVideoId(url) # Null THEN "youtube"
    ELSE IF getVimeoVideoId(url) # Null THEN "vimeo"
    ELSE IF isHLSVideo(url) THEN "hls"
    ELSE IF isDirectVideo(url) THEN "direct"
    ELSE "custom"

----------------------------------------------------------------------------
(* Quality URL of a direct file *)

Auto == <<"a", "u", "t", "o">>

\* the part after the last occurrence of character c (the whole string without one)
LastPart(s, c) ==
    LET at == { i \in 1..Len(s) : s[i] = c }
    IN  IF at = {} THEN s ELSE SubSeq(s, Max(at) + 1, Len(s))

\* the part before the first occurrence of character c
FirstPart(s, c) ==
    LET at == { i \in 1..Len(s) : s[i] = c }
    IN  IF at = {} THEN s ELSE SubSeq(s, 1, Min(at) - 1)

\* String.prototype.replace(pat, '') with a string pattern: the first occurrence
RemoveFirst(s, pat) ==
    LET at == { i \in 1..(Len(s) + 1) : MatchAt(s, i, pat, FALSE) }
    IN  IF at = {} THEN s
        ELSE SubSeq(s, 1, Min(at) - 1) \o SubSeq(s, Min(at) + Len(pat), Len(s))

getQualityUrl(baseUrl, quality) ==
    IF quality = Auto THEN baseUrl
    ELSE LET extension         == FirstPart(LastPart(baseUrl, "."), "?")
             baseUrlWithoutExt == RemoveFirst(baseUrl, <<".">> \o extension)
         IN  baseUrlWithoutExt \o <<"_">> \o quality \o <<"p", ".">> \o extension

----------------------------------------------------------------------------
(* Numbers and strings *)

\* Number.prototype.toString of a non-negative integer
RECURSIVE NumberToString(_)
NumberToString(n) ==
    IF n < 10 THEN <<Digits[n + 1]>>
    ELSE NumberToString(n \div 10) \o <<Digits[(n % 10) + 1]>>

DigitValue(c) == (CHOOSE k \in DOMAIN Digits : Digits[k] = c) - 1

RECURSIVE DigitsValue(_)
DigitsValue(s) ==
    IF s = <<>> THEN 0
    ELSE 10 * DigitsValue(SubSeq(s, 1, Len(s) - 1)) + DigitValue(s[Len(s)])

\* NaN: no comparison with it holds (the heights and indices are never negative)
NaN == -1

\* parseInt: the value of the leading digits, NaN without any
ParseInt(s) ==
    LET ds == RunFrom(s, 1, DigitChars)
    IN  IF ds = <<>> THEN NaN ELSE DigitsValue(ds)

Abs(x) == IF x < 0 THEN -x ELSE x

----------------------------------------------------------------------------
(* Quality controller *)

\* the standardQualities of getAvailableQualityOptions
StandardQualities == <<1080, 720, 480, 360, 240>>

\* hls.levels.map((level, index) => ({level: index, height: level.height, ...})):
\* the width and the bitrate are copied and never read
MapLevels(levels) ==
    [ k \in 1..Len(levels) |-> [level |-> k - 1, height |-> levels[k]] ]

\* one step of the stable sort: q goes after every entry that is at least as high
RECURSIVE InsertDesc(_, _)
InsertDesc(sorted, q) ==
    IF sorted = <<>> THEN <<q>>
    ELSE IF Head(sorted).height >= q.height
         THEN <<Head(sorted)>> \o InsertDesc(Tail(sorted), q)
         ELSE <<q>> \o sorted

RECURSIVE SortFrom(_, _)
SortFrom(sorted, rest) ==
    IF rest = <<>> THEN sorted
    ELSE SortFrom(InsertDesc(sorted, Head(rest)), Tail(rest))

\* the list left in the library's order
SortUnsorted(qs) == qs

\* .sort((a, b) => b.height - a.height): stable, descending by height
SortByHeightDesc(qs) == SortFrom(<<>>, qs)

\* availableQualities.find(exact) || availableQualities.find(within 100): the
\* position of the entry in qs, 0 for undefined
bestMatch(qs, targetHeight) ==
    LET exact == { k \in DOMAIN qs :
                     targetHeight # NaN /\ qs[k].height = targetHeight }
        near  == { k \in DOMAIN qs :
                     targetHeight # NaN /\ Abs(qs[k].height - targetHeight) < 100 }
    IN  IF exact # {} THEN Min(exact)
        ELSE IF near # {} THEN Min(near)
        ELSE 0

HdSuffix(height) == IF height >= 720 THEN <<" ", "H", "D">> ELSE <<>>

getAvailableQualityOptions(type, qs) ==
    <<[value |-> Auto, label |-> <<"A", "u", "t", "o">>]>> \o
    (IF type = "hls" /\ Len(qs) > 0
     THEN [ k \in 1..Len(qs) |->
              [value |-> NumberToString(qs[k].level),
               label |-> NumberToString(qs[k].height) \o <<"p">> \o HdSuffix(qs[k].height)] ]
     ELSE [ k \in 1..Len(StandardQualities) |->
              [value |-> NumberToString(StandardQualities[k]),
               label |-> NumberToString(StandardQualities[k]) \o <<"p">>
                           \o HdSuffix(StandardQualities[k])] ])

----------------------------------------------------------------------------
(* Bounds and inputs *)

MaxHandles == 2
MaxLevels == 3
MaxParts == 3
MaxInFlight == 2
MaxFsEvents == 2

\* the URLs the player is given: two streams, a direct file, a YouTube link
HlsUrlA == <<"a", ".", "m", "3", "u", "8">>
HlsUrlB == <<"b", ".", "m", "3", "u", "8">>
DirectUrl == <<"v", ".", "m", "p", "4">>
YouTubeUrl == <<"v", "/", "d", "Q", "w", "4", "w", "9", "W", "g", "X", "c", "Q">>
PlayerUrls == {HlsUrlA, HlsUrlB, DirectUrl, YouTubeUrl}

HlsSupports == {"mse", "native", "none"}

\* videoType as computed by the render that is current
renderedType == [u \in PlayerUrls |-> videoType(u)]

\* the heights a manifest may report, and the manifests: the levels in the
\* library's order
Heights == {360, 432, 480, 540, 720, 1080}
Manifests == UNION { [1..n -> Heights] : n \in 1..MaxLevels }

\* the manifest of the streams played while the source changes
StreamManifests == { <<360, 720, 1080>> }

\* Hls.ErrorTypes
ErrorTypes == {"networkError", "mediaError", "muxError", "otherError"}

----------------------------------------------------------------------------
(* The hls.js handle and the HLS effect *)

\* new Hls(...), loadSource(url), attachMedia(video): currentLevel starts at -1
NewHls(url) ==
    [url |-> url, destroyed |-> FALSE, currentLevel |-> -1, parsed |-> FALSE]

Destroy(hs, h) == [hs EXCEPT ![h].destroyed = TRUE]

\* the HLS effect run for url on the state st: a handle is created only when
\* the type is hls and Hls.isSupported(); the native branch assigns the source
HlsEffect(url, st) ==
    IF renderedType[url] = "hls" /\ url # <<>>
    THEN CASE hlsSupport = "mse" ->
                [st EXCEPT !.handles = Append(st.handles, NewHls(url)),
                           !.hlsRef = Len(st.handles) + 1,
                           !.effectHls = Len(st.handles) + 1]
           [] hlsSupport = "native" ->
                [st EXCEPT !.videoSrc = url, !.load = "pending",
                           !.isLoading = FALSE, !.effectHls = 0]
           [] OTHER -> [st EXCEPT !.effectHls = 0]
    ELSE [st EXCEPT !.effectHls = 0]

\* the state after the first render and its effects, no element being
\* fullscreen when the player mounts
InitPlayer(urls, supports) ==
    /\ mounted = TRUE
    /\ videoUrl \in urls
    /\ hlsSupport \in supports
    /\ selectedQuality = Auto
    /\ availableQualities = <<>>
    /\ listeners = FALSE
    /\ LET e == HlsEffect(videoUrl,
                          [handles |-> <<>>, hlsRef |-> 0, effectHls |-> 0,
                           videoSrc |-> Null, load |-> "idle",
                           isLoading |-> FALSE])
       IN  /\ handles = e.handles
           /\ hlsRef = e.hlsRef
           /\ effectHls = e.effectHls
           /\ videoSrc = e.videoSrc
           /\ load = e.load
           /\ isLoading = e.isLoading
    /\ isFullscreen = FALSE
    /\ fullscreenElement = FALSE
    /\ fsInFlight = <<>>
    /\ fsEvents = 0
    /\ lastOp = [op |-> "mount", arg |-> <<>>]
    /\ calls = <<>>
    /\ ret = <<>>

HasVideoElement(url) == renderedType[url] \in {"hls", "direct"}

\* videoUrl changes: the previous run's cleanup (hls.destroy() when it made a
\* handle), then the effect for the new URL. The <video> element is kept between
\* the hls and direct renders and dropped with its listeners otherwise.
ChangeVideoUrl(u) ==
    /\ mounted
    /\ u # videoUrl
    /\ LET cleaned == IF effectHls # 0 THEN Destroy(handles, effectHls) ELSE handles
           cleanup == IF effectHls # 0 THEN << <<effectHls, "destroy", 0>> >> ELSE <<>>
           keep    == HasVideoElement(videoUrl) /\ HasVideoElement(u)
           e == HlsEffect(u,
                          [handles |-> cleaned, hlsRef |-> hlsRef, effectHls |-> 0,
                           videoSrc |-> IF keep THEN videoSrc ELSE Null,
                           load |-> IF keep THEN load ELSE "idle",
                           isLoading |-> isLoading])
       IN  /\ Len(e.handles) <= MaxHandles
           /\ handles' = e.handles
           /\ hlsRef' = e.hlsRef
           /\ effectHls' = e.effectHls
           /\ videoSrc' = e.videoSrc
           /\ load' = e.load
           /\ isLoading' = e.isLoading
           /\ listeners' = (keep /\ listeners)
           /\ calls' = cleanup
    /\ videoUrl' = u
    /\ lastOp' = [op |-> "changeVideoUrl", arg |-> <<>>]
    /\ UNCHANGED <<mounted, hlsSupport, selectedQuality, availableQualities, ret>>
    /\ UNCHANGED fsVars

\* the handle whose listeners are registered and can still fire: the current
\* effect's, until it is destroyed
LiveHls == IF effectHls # 0 /\ ~handles[effectHls].destroyed THEN effectHls ELSE 0

\* Hls.Events.MANIFEST_PARSED on the live handle, the library reporting levels
ManifestParsed(levels) ==
    /\ mounted
    /\ LiveHls # 0
    /\ ~handles[LiveHls].parsed
    /\ handles' = [handles EXCEPT ![LiveHls].parsed = TRUE]
    /\ availableQualities' = SortByHeightDesc(MapLevels(levels))
    /\ isLoading' = FALSE
    /\ lastOp' = [op |-> "manifestParsed", arg |-> levels]
    /\ calls' = <<>>
    /\ UNCHANGED <<mounted, videoUrl, hlsSupport, selectedQuality, hlsRef,
                   effectHls, videoSrc, load, listeners, ret>>
    /\ UNCHANGED fsVars

\* the table with the network and media rows exchanged
ErrorCallsSwapped(h, fatal, type) ==
    IF ~fatal THEN <<>>
    ELSE CASE type = "networkError" -> << <<h, "recoverMediaError", 0>> >>
           [] type = "mediaError"   -> << <<h, "startLoad", 0>> >>
           [] OTHER                 -> << <<h, "destroy", 0>> >>

\* the recovery table of the ERROR listener: the calls made on hls
ErrorCalls(h, fatal, type) ==
    IF ~fatal THEN <<>>
    ELSE CASE type = "networkError" -> << <<h, "startLoad", 0>> >>
           [] type = "mediaError"   -> << <<h, "recoverMediaError", 0>> >>
           [] OTHER                 -> << <<h, "destroy", 0>> >>

\* Hls.Events.ERROR on the live handle
HlsError(fatal, type) ==
    /\ mounted
    /\ LiveHls # 0
    /\ calls' = ErrorCalls(LiveHls, fatal, type)
    /\ handles' = IF \E k \in DOMAIN calls' : calls'[k][2] = "destroy"
                  THEN Destroy(handles, LiveHls) ELSE handles
    /\ isLoading' = FALSE
    /\ lastOp' = [op |-> "hlsError", arg |-> <<fatal, type>>]
    /\ UNCHANGED <<mounted, videoUrl, hlsSupport, selectedQuality,
                   availableQualities, hlsRef, effectHls, videoSrc, load,
                   listeners, ret>>
    /\ UNCHANGED fsVars

----------------------------------------------------------------------------
(* handleQualityChange *)

\* the assignments with the sentinel assigned twice for auto
LevelWritesAutoTwice(quality, qs) ==
    IF quality = Auto THEN <<-1, -1>>
    ELSE LET k == bestMatch(qs, ParseInt(quality))
         IN  IF k = 0 THEN <<>> ELSE <<qs[k].level>>

\* the assignments the hls branch makes to hlsRef.current.currentLevel, in order
LevelWrites(quality, qs) ==
    IF quality = Auto THEN <<-1>>
    ELSE LET k == bestMatch(qs, ParseInt(quality))
         IN  IF k = 0 THEN <<>> ELSE <<qs[k].level>>

\* handleQualityChange(quality). The state setters of one handler are batched:
\* the last value set is the value after the handler. Every once-listener the
\* direct branch registers does the same to the state kept here, so one flag
\* stands for them.
handleQualityChange(quality) ==
    /\ mounted
    /\ selectedQuality' = quality
    /\ lastOp' = [op |-> "handleQualityChange", arg |-> <<>>]
    /\ IF renderedType[videoUrl] = "hls" /\ hlsRef # 0
       THEN LET writes == LevelWrites(quality, availableQualities)
            IN  /\ calls' = [ k \in 1..Len(writes) |->
                                <<hlsRef, "currentLevel", writes[k]>> ]
                /\ handles' = IF writes = <<>> THEN handles
                              ELSE [handles EXCEPT
                                      ![hlsRef].currentLevel = writes[Len(writes)]]
                /\ isLoading' = FALSE
                /\ UNCHANGED <<videoSrc, load, listeners>>
       ELSE IF renderedType[videoUrl] = "direct"
       THEN /\ videoSrc' = getQualityUrl(videoUrl, quality)
            /\ load' = "pending"
            /\ listeners' = TRUE
            /\ isLoading' = TRUE
            /\ calls' = <<>>
            /\ UNCHANGED handles
       ELSE /\ isLoading' = FALSE
            /\ calls' = <<>>
            /\ UNCHANGED <<handles, videoSrc, load, listeners>>
    /\ UNCHANGED <<mounted, videoUrl, hlsSupport, availableQualities, hlsRef,
                   effectHls, ret>>
    /\ UNCHANGED fsVars

\* the user picks an item of the quality Select
SelectQuality ==
    LET options == getAvailableQualityOptions(renderedType[videoUrl], availableQualities)
    IN  \E k \in DOMAIN options : handleQualityChange(options[k].value)

\* the handler called with a quality of the fixed set or a level index
QualityInputs ==
    {Auto} \cup { NumberToString(StandardQualities[k]) : k \in DOMAIN StandardQualities }
           \cup { NumberToString(i) : i \in 0..(MaxLevels - 1) }

CallHandleQualityChange == \E q \in QualityInputs : handleQualityChange(q)

\* the element's load of the assigned source succeeds: loadedmetadata fires,
\* the once-listeners run and are removed
LoadedMetadata ==
    /\ mounted
    /\ load = "pending"
    /\ load' = "loaded"
    /\ isLoading' = IF listeners THEN FALSE ELSE isLoading
    /\ listeners' = FALSE
    /\ lastOp' = [op |-> "loadedmetadata", arg |-> <<>>]
    /\ calls' = <<>>
    /\ UNCHANGED <<mounted, videoUrl, hlsSupport, selectedQuality,
                   availableQualities, hlsRef, effectHls, handles, videoSrc, ret>>
    /\ UNCHANGED fsVars

\* the load fails (the rewritten URL does not exist): an error event, which
\* nothing listens to
LoadFailed ==
    /\ mounted
    /\ load = "pending"
    /\ load' = "failed"
    /\ lastOp' = [op |-> "loadError", arg |-> <<>>]
    /\ calls' = <<>>
    /\ UNCHANGED <<mounted, videoUrl, hlsSupport, selectedQuality,
                   availableQualities, isLoading, hlsRef, effectHls, handles,
                   videoSrc, listeners, ret>>
    /\ UNCHANGED fsVars

\* unmount: the effects' cleanups in the order of the effects: the fullscreen
\* listener is removed, the HLS effect's cleanup destroys its handle, the last
\* effect's cleanup destroys hlsRef.current
Unmount ==
    /\ mounted
    /\ mounted' = FALSE
    /\ LET c1 == IF effectHls # 0 THEN << <<effectHls, "destroy", 0>> >> ELSE <<>>
           h1 == IF effectHls # 0 THEN Destroy(handles, effectHls) ELSE handles
           c2 == IF hlsRef # 0 THEN << <<hlsRef, "destroy", 0>> >> ELSE <<>>
           h2 == IF hlsRef # 0 THEN Destroy(h1, hlsRef) ELSE h1
       IN  /\ calls' = c1 \o c2
           /\ handles' = h2
    /\ lastOp' = [op |-> "unmount", arg |-> <<>>]
    /\ UNCHANGED <<videoUrl, hlsSupport, selectedQuality, availableQualities,
                   isLoading, hlsRef, effectHls, videoSrc, load, listeners, ret>>
    /\ UNCHANGED fsVars

Init == InitPlayer(PlayerUrls, HlsSupports)

Next ==
    \/ \E u \in PlayerUrls : ChangeVideoUrl(u)
    \/ \E levels \in StreamManifests : ManifestParsed(levels)
    \/ \E fatal \in BOOLEAN, type \in ErrorTypes : HlsError(fatal, type)
    \/ SelectQuality
    \/ LoadedMetadata
    \/ LoadFailed
    \/ Unmount

Spec == Init /\ [][Next]_vars

\* the pending load of an assigned source ends: the fetch succeeds or fails
LoadSettles == LoadedMetadata \/ LoadFailed

\* one source played to the end: every event but a change of videoUrl
NextLive ==
    \/ \E levels \in StreamManifests : ManifestParsed(levels)
    \/ \E fatal \in BOOLEAN, type \in ErrorTypes : HlsError(fatal, type)
    \/ SelectQuality
    \/ LoadedMetadata
    \/ LoadFailed
    \/ Unmount

\* a fetch the media element started ends, one way or the other
LiveSpec == Init /\ [][NextLive]_vars /\ WF_vars(LoadSettles)

----------------------------------------------------------------------------
(* The handler on one stream, called with every quality *)

InitQuality == InitPlayer({HlsUrlA}, {"mse"})

NextQuality ==
    \/ \E levels \in Manifests : ManifestParsed(levels)
    \/ CallHandleQualityChange
    \/ SelectQuality

QualitySpec == InitQuality /\ [][NextQuality]_vars

----------------------------------------------------------------------------
(* Fullscreen *)

\* toggleFullscreen up to its await: the container is rendered whenever the
\* component is mounted
toggleFullscreen ==
    /\ mounted
    /\ Len(fsInFlight) < MaxInFlight
    /\ fsInFlight' = Append(fsInFlight,
                            IF ~fullscreenElement THEN "request" ELSE "exit")
    /\ lastOp' = [op |-> "toggleFullscreen", arg |-> <<>>]
    /\ calls' = <<>>
    /\ UNCHANGED <<mounted, videoUrl, hlsSupport, isFullscreen,
                   fullscreenElement, fsEvents, ret>>
    /\ UNCHANGED playerVars

RemoveAt(s, k) == SubSeq(s, 1, k - 1) \o SubSeq(s, k + 1, Len(s))

\* the value toggleFullscreen sets after its await: true after
\* requestFullscreen(), false after exitFullscreen()
FlagAfterAwait(kind) == (kind = "request")

\* the browser fulfils the k-th pending promise: the fullscreen element is set
\* or cleared, a fullscreenchange notification is queued when that changed it,
\* and the rest of toggleFullscreen runs (a state setter of an unmounted
\* component does nothing)
FullscreenFulfilled(k) ==
    /\ k \in DOMAIN fsInFlight
    /\ fullscreenElement' = (fsInFlight[k] = "request")
    /\ fsEvents' = IF fullscreenElement' # fullscreenElement
                   THEN fsEvents + 1 ELSE fsEvents
    /\ fsEvents' <= MaxFsEvents
    /\ isFullscreen' = IF mounted THEN FlagAfterAwait(fsInFlight[k]) ELSE isFullscreen
    /\ fsInFlight' = RemoveAt(fsInFlight, k)
    /\ lastOp' = [op |-> "fullscreenFulfilled", arg |-> <<>>]
    /\ calls' = <<>>
    /\ UNCHANGED <<mounted, videoUrl, hlsSupport, ret>>
    /\ UNCHANGED playerVars

\* the browser rejects the k-th pending promise: the catch logs the error
FullscreenRejected(k) ==
    /\ k \in DOMAIN fsInFlight
    /\ fsInFlight' = RemoveAt(fsInFlight, k)
    /\ lastOp' = [op |-> "fullscreenRejected", arg |-> isFullscreen]
    /\ calls' = <<>>
    /\ UNCHANGED <<mounted, videoUrl, hlsSupport, isFullscreen,
                   fullscreenElement, fsEvents, ret>>
    /\ UNCHANGED playerVars

\* fullscreen entered or left without toggleFullscreen (the Esc key, the
\* native controls of the video, an embedded player)
BrowserFullscreenChange ==
    /\ fsEvents < MaxFsEvents
    /\ fullscreenElement' = ~fullscreenElement
    /\ fsEvents' = fsEvents + 1
    /\ lastOp' = [op |-> "browserFullscreenChange", arg |-> <<>>]
    /\ calls' = <<>>
    /\ UNCHANGED <<mounted, videoUrl, hlsSupport, isFullscreen, fsInFlight, ret>>
    /\ UNCHANGED playerVars

\* the flag set to the opposite of the document's state
FlagOnChangeNegated(element) == ~element

\* the value handleFullscreenChange sets: !!document.fullscreenElement
FlagOnChange(element) == element

\* a queued fullscreenchange notification is delivered: the listener runs while
\* the component is mounted
handleFullscreenChange ==
    /\ fsEvents > 0
    /\ fsEvents' = fsEvents - 1
    /\ isFullscreen' = IF mounted THEN FlagOnChange(fullscreenElement) ELSE isFullscreen
    /\ lastOp' = [op |-> "handleFullscreenChange", arg |-> <<>>]
    /\ calls' = <<>>
    /\ UNCHANGED <<mounted, videoUrl, hlsSupport, fullscreenElement, fsInFlight, ret>>
    /\ UNCHANGED playerVars

InitFs == InitPlayer({YouTubeUrl, DirectUrl}, {"mse"})

NextFs ==
    \/ toggleFullscreen
    \/ \E k \in 1..MaxInFlight : FullscreenFulfilled(k)
    \/ \E k \in 1..MaxInFlight : FullscreenRejected(k)
    \/ BrowserFullscreenChange
    \/ handleFullscreenChange
    \/ Unmount

FsSpec == InitFs /\ [][NextFs]_vars

----------------------------------------------------------------------------
(* The pure functions on generated URLs *)

UrlPieces ==
    { <<"y", "o", "u", "t", "u", ".", "b", "e", "/">>,
      <<"v", "/">>,
      <<"&", "v", "=">>,
      <<"d", "Q", "w", "4", "w", "9", "W", "g", "X", "c", "Q">>,
      <<"c", "l", "i", "p", "_", "0", "1">>,
      <<".", "m", "p", "4">>,
      <<".", "m", "3", "u", "8">>,
      <<"?", "t", "=", "1">>,
      <<"V", "i", "m", "e", "o", ".", "c", "o", "m", "/">>,
      <<"1", "2", "3">> }

RECURSIVE Flatten(_)
Flatten(ps) == IF ps = <<>> THEN <<>> ELSE Head(ps) \o Flatten(Tail(ps))

\* the URLs made of up to MaxParts pieces
UrlInputs == { Flatten(ps) : ps \in UNION { [1..n -> UrlPieces] : n \in 1..MaxParts } }

SwitchQualities == { Auto, <<"4", "8", "0">>, <<"7", "2", "0">> }

InitUrl ==
    /\ mounted = FALSE
    /\ videoUrl \in UrlInputs
    /\ hlsSupport = "none"
    /\ selectedQuality = Auto
    /\ availableQualities = <<>>
    /\ isLoading = FALSE
    /\ isFullscreen = FALSE
    /\ hlsRef = 0
    /\ effectHls = 0
    /\ handles = <<>>
    /\ videoSrc = Null
    /\ load = "idle"
    /\ listeners = FALSE
    /\ fullscreenElement = FALSE
    /\ fsInFlight = <<>>
    /\ fsEvents = 0
    /\ lastOp = [op |-> "none", arg |-> <<>>]
    /\ calls = <<>>
    /\ ret = <<>>

\* the classification of a render: the ids, the two extension tests, the type
Classify ==
    /\ ret' = [videoId |-> getYouTubeVideoId(videoUrl),
               vimeoId |-> getVimeoVideoId(videoUrl),
               isDirect |-> isDirectVideo(videoUrl),
               isHLS |-> isHLSVideo(videoUrl),
               videoType |-> videoType(videoUrl)]
    /\ lastOp' = [op |-> "classify", arg |-> <<>>]
    /\ UNCHANGED <<mounted, videoUrl, hlsSupport, calls>>
    /\ UNCHANGED playerVars
    /\ UNCHANGED fsVars

CallGetQualityUrl(quality) ==
    /\ ret' = getQualityUrl(videoUrl, quality)
    /\ lastOp' = [op |-> "getQualityUrl", arg |-> quality]
    /\ UNCHANGED <<mounted, videoUrl, hlsSupport, calls>>
    /\ UNCHANGED playerVars
    /\ UNCHANGED fsVars

NextUrl ==
    \/ Classify
    \/ \E q \in SwitchQualities : CallGetQualityUrl(q)

UrlSpec == InitUrl /\ [][NextUrl]_vars

----------------------------------------------------------------------------
(* Claims *)

\* the number of destroy() calls the last handler made on handle h
DestroyCalls(h) ==
    Cardinality({ k \in DOMAIN calls : calls[k] = <<h, "destroy", 0>> })

\* the last handler was handleQualityChange, taking the hls branch
SwitchedOnHls ==
    /\ lastOp.op = "handleQualityChange"
    /\ renderedType[videoUrl] = "hls"
    /\ hlsRef # 0

\* C1: unmounting an adaptive-stream player whose library handle was created
\* makes exactly one destroy call on that handle.
C1_UnmountDestroysOnce ==
    (lastOp.op = "unmount" /\ effectHls # 0) => DestroyCalls(effectHls) = 1

\* C2: after every quality switch the loading flag is eventually cleared again;
\* it never stays true forever while the player is mounted.
C2_LoadingEventuallyCleared ==
    (mounted /\ isLoading) ~> (~mounted \/ ~isLoading)

\* the levels the claim allows for height h: those of height h; without one,
\* the nearest among those less than 100 away; without one, none
NearestLevels(qs, h) ==
    LET exact  == { k \in DOMAIN qs : qs[k].height = h }
        within == { k \in DOMAIN qs : Abs(qs[k].height - h) < 100 }
        best   == { k \in within :
                      \A j \in within :
                          Abs(qs[k].height - h) <= Abs(qs[j].height - h) }
    IN  { qs[k].level : k \in (IF exact # {} THEN exact ELSE best) }

\* C3: a switch to height h on an adaptive stream sets the active level to the
\* level of height h, else to the nearest level within the tolerance of 100,
\* else leaves it unchanged.
C3_SwitchSelectsNearest ==
    (SwitchedOnHls /\ selectedQuality # Auto) =>
        LET allowed == NearestLevels(availableQualities, ParseInt(selectedQuality))
        IN  IF allowed = {} THEN calls = <<>>
            ELSE /\ Len(calls) = 1
                 /\ calls[1][1] = hlsRef
                 /\ calls[1][2] = "currentLevel"
                 /\ calls[1][3] \in allowed

\* C4: a switch to auto on an adaptive stream with a handle assigns the
\* sentinel -1 to the active level once and assigns nothing else.
C4_AutoAssignsSentinelOnce ==
    (SwitchedOnHls /\ selectedQuality = Auto) =>
        /\ calls = << <<hlsRef, "currentLevel", -1>> >>
        /\ handles[hlsRef].currentLevel = -1

C4_Witness ==
    /\ SwitchedOnHls
    /\ selectedQuality = Auto
    /\ availableQualities # <<>>
    /\ ~handles[hlsRef].destroyed
    /\ calls = << <<hlsRef, "currentLevel", -1>> >>

\* the exposed list holds exactly the reported levels, each with its index
ExposesReported(qs, levels) ==
    /\ Len(qs) = Len(levels)
    /\ \A i \in DOMAIN levels :
           Cardinality({ k \in DOMAIN qs :
                           qs[k] = [level |-> i - 1, height |-> levels[i]] }) = 1

\* C5 as stated: after manifest-parsed the exposed list holds exactly the
\* reported levels with their indices and is strictly descending by height.
C5_StrictlyDescending ==
    lastOp.op = "manifestParsed" =>
        /\ ExposesReported(availableQualities, lastOp.arg)
        /\ \A k \in 1..(Len(availableQualities) - 1) :
               availableQualities[k].height > availableQualities[k + 1].height

\* C5 as amended: after manifest-parsed the exposed list holds exactly the
\* reported levels with their indices and is descending by height, levels of
\* equal height staying adjacent; it is strictly descending when the reported
\* heights are pairwise different.
C5_Descending ==
    lastOp.op = "manifestParsed" =>
        /\ ExposesReported(availableQualities, lastOp.arg)
        /\ \A k \in 1..(Len(availableQualities) - 1) :
               availableQualities[k].height >= availableQualities[k + 1].height
        /\ (\A i, j \in DOMAIN lastOp.arg : i # j => lastOp.arg[i] # lastOp.arg[j])
               => \A k \in 1..(Len(availableQualities) - 1) :
                      availableQualities[k].height > availableQualities[k + 1].height

C5_Witness ==
    /\ lastOp.op = "manifestParsed"
    /\ lastOp.arg = <<360, 720, 1080>>
    /\ availableQualities = << [level |-> 2, height |-> 1080],
                               [level |-> 1, height |-> 720],
                               [level |-> 0, height |-> 360] >>

\* the capture of the YouTube pattern on url: the characters up to the next
\* #, & or ? after the last marker of the URL
YouTubeCapture(url) ==
    LET ends == { i + Len(YouTubeMarkers[m]) :
                    i \in 1..Len(url), m \in DOMAIN YouTubeMarkers }
        last == { e \in ends :
                    /\ \E m \in DOMAIN YouTubeMarkers :
                           MatchAt(url, e - Len(YouTubeMarkers[m]), YouTubeMarkers[m], FALSE)
                    /\ \A i \in 1..Len(url), m \in DOMAIN YouTubeMarkers :
                           MatchAt(url, i, YouTubeMarkers[m], FALSE)
                               => i + Len(YouTubeMarkers[m]) <= e }
    IN  { RunFromNot(url, e, {"#", "&", "?"}) : e \in last }

\* C6: the checks are applied in the order YouTube id, Vimeo id, .m3u8
\* extension, direct-file extension, the first that matches decides the type
\* and custom is the fallback; a URL whose YouTube pattern captures 11
\* characters is YouTube with that id, whatever else it matches.
C6_FirstMatchWins ==
    lastOp.op = "classify" =>
        /\ ret.videoType =
              (CASE ret.videoId # Null -> "youtube"
                 [] ret.videoId = Null /\ ret.vimeoId # Null -> "vimeo"
                 [] ret.videoId = Null /\ ret.vimeoId = Null /\ ret.isHLS -> "hls"
                 [] ret.videoId = Null /\ ret.vimeoId = Null /\ ~ret.isHLS
                        /\ ret.isDirect -> "direct"
                 [] OTHER -> "custom")
        /\ \A id \in YouTubeCapture(videoUrl) :
               Len(id) = 11 => (ret.videoType = "youtube" /\ ret.videoId = id)

C6_Witness ==
    /\ lastOp.op = "classify"
    /\ ret.videoType = "youtube"
    /\ ret.videoId = <<"c", "l", "i", "p", "_", "0", "1", ".", "m", "p", "4">>
    /\ ret.isDirect

\* the position of the dot of the file extension that makes url a direct file
ExtensionDot(url) ==
    Min({ i \in 1..Len(url) :
            \E ext \in DirectExtensions :
                /\ MatchAt(url, i, <<".">> \o ext, TRUE)
                /\ (i + Len(ext) = Len(url) \/ url[i + Len(ext) + 1] = "?") })

\* C7: the quality URL of a direct file is the URL with _{q}p inserted right
\* before the file extension and nothing else changed; for auto it is the URL.
C7_SuffixBeforeExtension ==
    (lastOp.op = "getQualityUrl" /\ videoType(videoUrl) = "direct") =>
        ret = IF lastOp.arg = Auto THEN videoUrl
              ELSE LET d == ExtensionDot(videoUrl)
                   IN  SubSeq(videoUrl, 1, d - 1) \o <<"_">> \o lastOp.arg \o <<"p">>
                           \o SubSeq(videoUrl, d, Len(videoUrl))

\* C8: a fatal network error makes exactly startLoad, a fatal media error
\* exactly recoverMediaError, any other fatal error exactly destroy, and an
\* error that is not fatal no call at all, on the handle that reported it.
C8_RecoveryTable ==
    lastOp.op = "hlsError" =>
        LET fatal == lastOp.arg[1]
            type  == lastOp.arg[2]
        IN  /\ (fatal /\ type = "networkError")
                   => calls = << <<effectHls, "startLoad", 0>> >>
            /\ (fatal /\ type = "mediaError")
                   => calls = << <<effectHls, "recoverMediaError", 0>> >>
            /\ (fatal /\ type \notin {"networkError", "mediaError"})
                   => (calls = << <<effectHls, "destroy", 0>> >>
                       /\ handles[effectHls].destroyed)
            /\ ~fatal => calls = <<>>

C8_Witness ==
    /\ lastOp.op = "hlsError"
    /\ lastOp.arg = <<TRUE, "networkError">>
    /\ calls = << <<effectHls, "startLoad", 0>> >>
    /\ ~handles[effectHls].destroyed

\* no promise of toggleFullscreen is pending and no notification is queued
Quiescent == fsInFlight = <<>> /\ fsEvents = 0

C10_OptionSelectsItsLevel ==
    (SwitchedOnHls /\ selectedQuality # Auto /\ availableQualities # <<>>
        /\ handles[hlsRef].parsed) =>
        /\ \E k \in DOMAIN availableQualities :
               NumberToString(availableQualities[k].level) = selectedQuality
        /\ handles[hlsRef].currentLevel = ParseInt(selectedQuality)

\* hlsRef.current is null, or a handle that was not destroyed and was created
\* for the current videoUrl
HlsRefLive ==
    hlsRef = 0 \/ (/\ ~handles[hlsRef].destroyed
                   /\ handles[hlsRef].url = videoUrl)

\* the last handler assigned currentLevel on a handle that had been destroyed
\* (no handler both destroys a handle and assigns its level)
WroteOnTornDown ==
    \E k \in DOMAIN calls :
        /\ calls[k][2] = "currentLevel"
        /\ handles[calls[k][1]].destroyed

\* C11: while the player is mounted, hlsRef is empty or refers to a handle
\* that has not been torn down and is attached to the current source, and no
\* assignment of the active level is made on a torn-down handle.
C11_HandleRefNeverStale ==
    /\ mounted => HlsRefLive
    /\ ~WroteOnTornDown

\* the second half of C11 alone: no assignment of the active level on a
\* torn-down handle
C11_NoWriteOnTornDown == ~WroteOnTornDown

====
